---- MODULE Spec2Model ----
(***************************************************************************)
(* Page Genius: the view router (App.tsx), the chat controller             *)
(* (ChatBot.tsx), the image generator controller and the analyzer          *)
(* controller (ImageGenerator.tsx, which holds both components).           *)
(*                                                                         *)
(* Text is a sequence of one-character strings, so that trim, split and    *)
(* concatenation are computed as String.prototype.trim/split/+ compute     *)
(* them.  A component that is not rendered has no state: its variables     *)
(* hold the Unmounted values, and a continuation of an unmounted instance  *)
(* is dropped (React discards its state updates).  ChatMessage.timestamp   *)
(* (new Date()) is read by no code and is not modelled.                    *)
(***************************************************************************)
EXTENDS Integers, Sequences, FiniteSets, TLC

\* ------------------------------------------------------------------ bounds
MaxTurns == 2         \* chat turns sent over one conversation handle
MaxFragments == 2     \* chunks one stream yields
MaxParts == 2         \* content parts of an image response
MaxPending == 1       \* openSelectKey promises pending at once
MaxTokens == 4        \* tokens an analysis response text is made of

\* -------------------------------------------------------------------- text
RECURSIVE SeqsUpTo(_, _)
\* all sequences over S of length at most n
SeqsUpTo(S, n) ==
  IF n = 0 THEN {<<>>}
  ELSE LET shorter == SeqsUpTo(S, n - 1)
       IN  shorter \cup {Append(q, x) : q \in {t \in shorter : Len(t) = n - 1}, x \in S}

\* the white space String.prototype.trim removes, among the modelled characters
WhiteSpace == {" ", "\n"}

RECURSIVE TrimStart(_)
TrimStart(s) ==
  IF s = <<>> THEN <<>>
  ELSE IF Head(s) \in WhiteSpace THEN TrimStart(Tail(s)) ELSE s

RECURSIVE TrimEnd(_)
TrimEnd(s) ==
  IF s = <<>> THEN <<>>
  ELSE IF s[Len(s)] \in WhiteSpace THEN TrimEnd(SubSeq(s, 1, Len(s) - 1)) ELSE s

NoTrim(s) == s

\* String.prototype.trim
Trim(s) == TrimEnd(TrimStart(s))

\* s starts with sep at position i
MatchAt(s, sep, i) ==
  /\ i + Len(sep) - 1 <= Len(s)
  /\ \A k \in 1..Len(sep) : s[i + k - 1] = sep[k]

\* String.prototype.indexOf, 1-based; 0 when sep does not occur
IndexOf(s, sep) ==
  LET hits == {i \in 1..Len(s) : MatchAt(s, sep, i)}
  IN  IF hits = {} THEN 0 ELSE CHOOSE i \in hits : \A j \in hits : i <= j

RECURSIVE Split(_, _)
\* String.prototype.split with a non-empty separator
Split(s, sep) ==
  LET i == IndexOf(s, sep)
  IN  IF i = 0 THEN <<s>>
      ELSE <<SubSeq(s, 1, i - 1)>> \o Split(SubSeq(s, i + Len(sep), Len(s)), sep)

RECURSIVE Join(_, _)
\* Array.prototype.join
Join(parts, sep) ==
  IF parts = <<>> THEN <<>>
  ELSE IF Len(parts) = 1 THEN parts[1]
  ELSE parts[1] \o sep \o Join(Tail(parts), sep)

RECURSIVE Flatten(_)
\* the concatenation of a sequence of texts
Flatten(ts) == IF ts = <<>> THEN <<>> ELSE Head(ts) \o Flatten(Tail(ts))

IsPrefix(s, t) == Len(s) <= Len(t) /\ SubSeq(t, 1, Len(s)) = s

\* ---------------------------------------------------------- fixed strings
GREETING ==
  <<
    "H", "e", "l", "l", "o", "!", " ", "I", "'", "m", " ", "y", "o", "u", "r",
    " ", "P", "a", "g", "e", " ", "G", "e", "n", "i", "u", "s", " ", "t", "u",
    "t", "o", "r", ".", " ", "D", "o", " ", "y", "o", "u", " ", "h", "a", "v",
    "e", " ", "q", "u", "e", "s", "t", "i", "o", "n", "s", " ", "a", "b", "o",
    "u", "t", " ", "a", " ", "s", "p", "e", "c", "i", "f", "i", "c", " ", "t",
    "o", "p", "i", "c", " ", "o", "r", " ", "p", "r", "o", "b", "l", "e", "m",
    "?" >>

APOLOGY ==
  <<
    "I", "'", "m", " ", "s", "o", "r", "r", "y", ",", " ", "I", "'", "m", " ",
    "h", "a", "v", "i", "n", "g", " ", "t", "r", "o", "u", "b", "l", "e", " ",
    "c", "o", "n", "n", "e", "c", "t", "i", "n", "g", " ", "r", "i", "g", "h",
    "t", " ", "n", "o", "w", ".", " ", "P", "l", "e", "a", "s", "e", " ", "t",
    "r", "y", " ", "a", "g", "a", "i", "n", "." >>

ANALYSIS_ERROR ==
  <<
    "S", "o", "r", "r", "y", ",", " ", "I", " ", "e", "n", "c", "o", "u", "n",
    "t", "e", "r", "e", "d", " ", "a", "n", " ", "e", "r", "r", "o", "r", " ",
    "a", "n", "a", "l", "y", "z", "i", "n", "g", " ", "t", "h", "e", " ", "i",
    "m", "a", "g", "e", ".", " ", "P", "l", "e", "a", "s", "e", " ", "t", "r",
    "y", " ", "a", "g", "a", "i", "n", "." >>

\* ------------------------------------------------------------------- state
VARIABLES
  currentView,       \* App: the selected view
  mounted,           \* the controllers React keeps mounted
  \* ChatBot
  messages, input, isTyping, chatRef,
  chatPc,            \* position of handleSend, and how the last turn ended
  chatCall,          \* the ChatBot handler or continuation that ran last
  fullResponseText,  \* handleSend's accumulator
  yielded,           \* the chunk texts the stream being read has yielded
  chatRequests,      \* the messages sent over the conversation handle
  \* ImageGenerator
  prompt, resolution, generatedImages, isLoading, hasApiKey,
  hostPresent,       \* window.aistudio is defined, as the mounted controller finds it
  checkPending,      \* hasSelectedApiKey() of checkApiKey has not resolved
  openPending,       \* openSelectKey() promises that have not resolved
  genRequest,        \* the generateContent request handleGenerate awaits
  genSettled,        \* how that request settled, until handleGenerate resumes
  genPc,             \* position of handleGenerate, and how the last call ended
  \* Analyzer
  file, previewUrl, isAnalyzing, result,
  anPc,              \* position of handleAnalyze
  anFile,            \* the file handleAnalyze's closure captured
  anSettled          \* how generateContent settled, until handleAnalyze resumes

appVars == <<currentView, mounted>>
chatVars == <<messages, input, isTyping, chatRef, chatPc, chatCall,
              fullResponseText, yielded, chatRequests>>
genVars == <<prompt, resolution, generatedImages, isLoading, hasApiKey,
             hostPresent, checkPending, openPending, genRequest, genSettled,
             genPc>>
anVars == <<file, previewUrl, isAnalyzing, result, anPc, anFile, anSettled>>
vars == <<appVars, chatVars, genVars, anVars>>

\* types.ts: enum View
View == {"ANALYZER", "IMAGE_GEN", "CHAT"}

\* types.ts: enum ImageResolution
ImageResolution == {"1K", "2K", "4K"}

Null == "null"

\* a nullable value is a sequence of length at most one: None is null, and
\* Some(x) is the value x
None == <<>>
Some(x) == <<x>>

StillBusy == TRUE

\* the value every finally block stores in its busy flag
Finally == FALSE

\* --------------------------------------------------------------------- App
renderContentChatAsAnalyzer(view) ==
  CASE view = "ANALYZER" -> "Analyzer"
    [] view = "IMAGE_GEN" -> "ImageGenerator"
    [] OTHER -> "Analyzer"

\* App.renderContent: the controller rendered for a view selection
renderContent(view) ==
  CASE view = "ANALYZER" -> "Analyzer"
    [] view = "IMAGE_GEN" -> "ImageGenerator"
    [] view = "CHAT" -> "ChatBot"
    [] OTHER -> "Analyzer"

\* ----------------------------------------------------------------- ChatBot
ChatMessage(role, text) == [role |-> role, text |-> text]

\* what the user can type into the chat input
Inputs == {<<>>, <<" ">>, <<" ", "h", "i", " ">>}

\* the text of a chunk a stream can yield; <<>> is a chunk without text
Fragments == {<<>>, <<"H", "e", "l">>, <<"l", "o">>}

\* useState initial values, then the mount effect (chat handle, greeting)
ChatMount ==
  /\ messages' = <<ChatMessage("model", GREETING)>>
  /\ input' = <<>>
  /\ isTyping' = FALSE
  /\ chatRef' = "chat"
  /\ chatPc' = "idle"
  /\ chatCall' = "mount"
  /\ fullResponseText' = <<>>
  /\ yielded' = <<>>
  /\ chatRequests' = <<>>

\* the ChatBot is not rendered
ChatUnmounted ==
  /\ messages = <<>>
  /\ input = <<>>
  /\ isTyping = FALSE
  /\ chatRef = Null
  /\ chatPc = "idle"
  /\ chatCall = "none"
  /\ fullResponseText = <<>>
  /\ yielded = <<>>
  /\ chatRequests = <<>>

ChatUnmount ==
  /\ messages' = <<>>
  /\ input' = <<>>
  /\ isTyping' = FALSE
  /\ chatRef' = Null
  /\ chatPc' = "idle"
  /\ chatCall' = "none"
  /\ fullResponseText' = <<>>
  /\ yielded' = <<>>
  /\ chatRequests' = <<>>

NeverDisabled == FALSE

\* the disabled attribute of the input and of the send button while a turn
\* is in flight
Disabled == isTyping

\* onChange of the input, which is disabled while isTyping
setInput(v) ==
  /\ "ChatBot" \in mounted
  /\ ~Disabled
  /\ input' = v
  /\ chatCall' = "setInput"
  /\ UNCHANGED <<messages, isTyping, chatRef, chatPc, fullResponseText,
                 yielded, chatRequests>>
  /\ UNCHANGED <<appVars, genVars, anVars>>

\* handleSend up to its first await.  Enter in the input and the send
\* button both call it; the input and the button are disabled while isTyping.
handleSend ==
  /\ "ChatBot" \in mounted
  /\ ~Disabled
  /\ chatCall' = "handleSend"
  /\ IF Trim(input) = <<>> \/ chatRef = Null
     THEN UNCHANGED <<messages, input, isTyping, chatRef, chatPc,
                      fullResponseText, yielded, chatRequests>>
     ELSE /\ Len(chatRequests) < MaxTurns
          /\ messages' = Append(messages, ChatMessage("user", input))
          /\ input' = <<>>
          /\ isTyping' = TRUE
          /\ chatRequests' = Append(chatRequests, input)
          /\ chatPc' = "requesting"
          /\ UNCHANGED <<chatRef, fullResponseText, yielded>>
  /\ UNCHANGED <<appVars, genVars, anVars>>

sendMessageStreamResolvedNoPlaceholder ==
  /\ chatPc = "requesting"
  /\ fullResponseText' = <<>>
  /\ yielded' = <<>>
  /\ chatPc' = "streaming"
  /\ chatCall' = "sendMessageStreamResolved"
  /\ UNCHANGED <<messages, input, isTyping, chatRef, chatRequests>>
  /\ UNCHANGED <<appVars, genVars, anVars>>

\* sendMessageStream resolved: the accumulator starts empty and the
\* placeholder is appended
sendMessageStreamResolved ==
  /\ chatPc = "requesting"
  /\ fullResponseText' = <<>>
  /\ yielded' = <<>>
  /\ messages' = Append(messages, ChatMessage("model", <<>>))
  /\ chatPc' = "streaming"
  /\ chatCall' = "sendMessageStreamResolved"
  /\ UNCHANGED <<input, isTyping, chatRef, chatRequests>>
  /\ UNCHANGED <<appVars, genVars, anVars>>

ChatCatchOverwrites(pc) ==
  /\ messages' = [messages EXCEPT ![Len(messages)].text = APOLOGY]
  /\ isTyping' = Finally
  /\ chatPc' = pc
  /\ fullResponseText' = <<>>
  /\ yielded' = <<>>
  /\ UNCHANGED <<input, chatRef, chatRequests>>
  /\ UNCHANGED <<appVars, genVars, anVars>>

\* the catch block and the finally block of handleSend
ChatCatch(pc) ==
  /\ messages' = Append(messages, ChatMessage("model", APOLOGY))
  /\ isTyping' = Finally
  /\ chatPc' = pc
  /\ fullResponseText' = <<>>
  /\ yielded' = <<>>
  /\ UNCHANGED <<input, chatRef, chatRequests>>
  /\ UNCHANGED <<appVars, genVars, anVars>>

\* sendMessageStream rejected
sendMessageStreamRejected ==
  /\ chatPc = "requesting"
  /\ chatCall' = "sendMessageStreamRejected"
  /\ ChatCatch("rejected")

UpdateLastWithChunk(msgs, text, chunk) ==
  [msgs EXCEPT ![Len(msgs)].text = chunk]

UpdateBeforeLast(msgs, text, chunk) ==
  [msgs EXCEPT ![Len(msgs) - 1].text = text]

\* the state update of one chunk: the last entry's text becomes the accumulator
UpdateLast(msgs, text, chunk) ==
  [msgs EXCEPT ![Len(msgs)].text = text]

\* one iteration of the for-await loop over a chunk with text c
streamChunk(c) ==
  /\ chatPc = "streaming"
  /\ Len(yielded) < MaxFragments
  /\ yielded' = Append(yielded, c)
  /\ IF c # <<>>
     THEN /\ fullResponseText' = fullResponseText \o c
          /\ messages' = UpdateLast(messages, fullResponseText', c)
     ELSE UNCHANGED <<fullResponseText, messages>>
  /\ chatCall' = "streamChunk"
  /\ UNCHANGED <<input, isTyping, chatRef, chatPc, chatRequests>>
  /\ UNCHANGED <<appVars, genVars, anVars>>

\* the stream ended: the finally block
streamDone ==
  /\ chatPc = "streaming"
  /\ isTyping' = Finally
  /\ chatPc' = "done"
  /\ chatCall' = "streamDone"
  /\ fullResponseText' = <<>>
  /\ yielded' = <<>>
  /\ UNCHANGED <<messages, input, chatRef, chatRequests>>
  /\ UNCHANGED <<appVars, genVars, anVars>>

\* the stream threw while it was iterated
streamThrew ==
  /\ chatPc = "streaming"
  /\ chatCall' = "streamThrew"
  /\ ChatCatch("threw")

\* ---------------------------------------------------------- ImageGenerator
\* what the user can type into the prompt field
Prompts == {<<>>, <<" ">>, <<" ", "a">>}

\* a content part: a text part, or an inline-data part whose mimeType and
\* data may be absent ("")
TextPart == [inlineData |-> FALSE, mimeType |-> "", data |-> ""]
InlinePart(m, d) == [inlineData |-> TRUE, mimeType |-> m, data |-> d]
Parts == {TextPart, InlinePart("image/png", ""), InlinePart("", "QUJD"),
          InlinePart("image/jpeg", "QUJD")}

\* what response.candidates?.[0]?.content?.parts can be: absent, or parts
NoParts == [hasParts |-> FALSE, parts |-> <<>>]
Responses == {NoParts} \cup {[hasParts |-> TRUE, parts |-> q] : q \in SeqsUpTo(Parts, MaxParts)}

\* how a generateContent call of handleGenerate can settle: with a response,
\* or with an error whose serialization includes "Requested entity was not
\* found" (matches) or does not
Fulfilled(response) == [ok |-> TRUE, matches |-> FALSE, response |-> response]
Failed(matches) == [ok |-> FALSE, matches |-> matches, response |-> NoParts]
GenOutcomes == {Fulfilled(r) : r \in Responses} \cup {Failed(m) : m \in BOOLEAN}

\* the data URL pushed for an inline-data part
DataUrl(part) ==
  <<"data:", IF part.mimeType # "" THEN part.mimeType ELSE "image/png",
    ";base64,", part.data>>

RECURSIVE CollectImages(_)
\* the loop over the parts of the first candidate
CollectImages(parts) ==
  IF parts = <<>> THEN <<>>
  ELSE LET part == Head(parts)
       IN  IF part.inlineData /\ part.data # ""
           THEN <<DataUrl(part)>> \o CollectImages(Tail(parts))
           ELSE CollectImages(Tail(parts))

\* the images handleGenerate stores for a response
ImagesOf(response) ==
  IF response.hasParts THEN CollectImages(response.parts) ELSE <<>>

\* useState initial values, then the mount effect (checkApiKey), in a host
\* that provides window.aistudio or does not
GenMount ==
  /\ hostPresent' \in BOOLEAN
  /\ prompt' = <<>>
  /\ resolution' = "1K"
  /\ generatedImages' = <<>>
  /\ isLoading' = FALSE
  /\ hasApiKey' = TRUE
  /\ checkPending' = hostPresent'
  /\ openPending' = 0
  /\ genRequest' = None
  /\ genSettled' = None
  /\ genPc' = "idle"

\* the ImageGenerator is not rendered
GenUnmounted ==
  /\ hostPresent = FALSE
  /\ prompt = <<>>
  /\ resolution = "1K"
  /\ generatedImages = <<>>
  /\ isLoading = FALSE
  /\ hasApiKey = TRUE
  /\ checkPending = FALSE
  /\ openPending = 0
  /\ genRequest = None
  /\ genSettled = None
  /\ genPc = "idle"

GenUnmount ==
  /\ hostPresent' = FALSE
  /\ prompt' = <<>>
  /\ resolution' = "1K"
  /\ generatedImages' = <<>>
  /\ isLoading' = FALSE
  /\ hasApiKey' = TRUE
  /\ checkPending' = FALSE
  /\ openPending' = 0
  /\ genRequest' = None
  /\ genSettled' = None
  /\ genPc' = "idle"

\* checkApiKey after hasSelectedApiKey() resolved with hasKey
checkApiKeyResolved(hasKey) ==
  /\ checkPending
  /\ checkPending' = FALSE
  /\ hasApiKey' = hasKey
  /\ UNCHANGED <<prompt, resolution, generatedImages, isLoading, openPending,
                 genRequest, genSettled, genPc>>
  /\ UNCHANGED <<appVars, chatVars, anVars, hostPresent>>

ConnectKeyUnguarded(pending) == pending + 1

\* handleConnectKey up to its await: openSelectKey() is called when the
\* host capability exists
ConnectKey(pending) == IF hostPresent THEN pending + 1 ELSE pending

\* the Connect Account button, rendered while hasApiKey is false
handleConnectKey ==
  /\ "ImageGenerator" \in mounted
  /\ ~hasApiKey
  /\ openPending < MaxPending
  /\ openPending' = ConnectKey(openPending)
  /\ UNCHANGED <<prompt, resolution, generatedImages, isLoading, hasApiKey,
                 checkPending, genRequest, genSettled, genPc>>
  /\ UNCHANGED <<appVars, chatVars, anVars, hostPresent>>

KeyReadBack == hasApiKey

\* setHasApiKey(true) of handleConnectKey: success is assumed
KeyAfterConnect == TRUE

\* handleConnectKey after openSelectKey() resolved
openSelectKeyResolved ==
  /\ openPending > 0
  /\ openPending' = openPending - 1
  /\ hasApiKey' = KeyAfterConnect
  /\ UNCHANGED <<prompt, resolution, generatedImages, isLoading, checkPending,
                 genRequest, genSettled, genPc>>
  /\ UNCHANGED <<appVars, chatVars, anVars, hostPresent>>

\* openSelectKey() rejected: handleConnectKey ends at its await
openSelectKeyRejected ==
  /\ openPending > 0
  /\ openPending' = openPending - 1
  /\ UNCHANGED <<prompt, resolution, generatedImages, isLoading, hasApiKey,
                 checkPending, genRequest, genSettled, genPc>>
  /\ UNCHANGED <<appVars, chatVars, anVars, hostPresent>>

\* onChange of the prompt field, rendered while hasApiKey is true
setPrompt(v) ==
  /\ "ImageGenerator" \in mounted
  /\ hasApiKey
  /\ prompt' = v
  /\ UNCHANGED <<resolution, generatedImages, isLoading, hasApiKey,
                 checkPending, openPending, genRequest, genSettled, genPc>>
  /\ UNCHANGED <<appVars, chatVars, anVars, hostPresent>>

\* the resolution buttons, rendered while hasApiKey is true
setResolution(res) ==
  /\ "ImageGenerator" \in mounted
  /\ hasApiKey
  /\ resolution' = res
  /\ UNCHANGED <<prompt, generatedImages, isLoading, hasApiKey,
                 checkPending, openPending, genRequest, genSettled, genPc>>
  /\ UNCHANGED <<appVars, chatVars, anVars, hostPresent>>

RequestDefaultSize(p, res) ==
  [prompt |-> p, imageSize |-> "1K", aspectRatio |-> "1:1"]

\* the argument of ai.models.generateContent in handleGenerate
GenerateRequest(p, res) ==
  [prompt |-> p, imageSize |-> res, aspectRatio |-> "1:1"]

\* handleGenerate up to its await.  The button is rendered while hasApiKey
\* is true and disabled while isLoading or the prompt is empty.
handleGenerate ==
  /\ "ImageGenerator" \in mounted
  /\ hasApiKey
  /\ ~isLoading
  /\ prompt # <<>>
  /\ openPending < MaxPending
  /\ IF Trim(prompt) = <<>>
     THEN UNCHANGED genVars
     ELSE /\ isLoading' = TRUE
          /\ generatedImages' = <<>>
          /\ genRequest' = Some(GenerateRequest(prompt, resolution))
          /\ genPc' = "generating"
          /\ UNCHANGED <<prompt, resolution, hasApiKey, checkPending, openPending,
                         genSettled>>
  /\ UNCHANGED <<appVars, chatVars, anVars, hostPresent>>

\* the collaborator settles the generateContent promise
generateContentSettles ==
  /\ genRequest # None
  /\ genSettled = None
  /\ \E outcome \in GenOutcomes : genSettled' = Some(outcome)
  /\ UNCHANGED genPc
  /\ UNCHANGED <<prompt, resolution, generatedImages, isLoading, hasApiKey,
                 checkPending, openPending, genRequest>>
  /\ UNCHANGED <<appVars, chatVars, anVars, hostPresent>>

\* handleGenerate resumes with a response: the images, then finally
generateContentResolved ==
  /\ genSettled # None
  /\ genSettled[1].ok
  /\ generatedImages' = ImagesOf(genSettled[1].response)
  /\ isLoading' = Finally
  /\ genRequest' = None
  /\ genSettled' = None
  /\ genPc' = "generated"
  /\ UNCHANGED <<prompt, resolution, hasApiKey, checkPending, openPending>>
  /\ UNCHANGED <<appVars, chatVars, anVars, hostPresent>>

AnyError(outcome) == TRUE

\* JSON.stringify(error).includes("Requested entity was not found")
IsAuthError(outcome) == outcome.matches

\* handleGenerate resumes with an error: the catch block, then finally
generateContentRejected ==
  /\ genSettled # None
  /\ ~genSettled[1].ok
  /\ IF IsAuthError(genSettled[1])
     THEN /\ hasApiKey' = FALSE
          /\ openPending' = ConnectKey(openPending)
     ELSE UNCHANGED <<hasApiKey, openPending>>
  /\ isLoading' = Finally
  /\ genRequest' = None
  /\ genSettled' = None
  /\ genPc' = IF IsAuthError(genSettled[1]) THEN "authFailed" ELSE "failed"
  /\ UNCHANGED <<prompt, resolution, generatedImages, checkPending>>
  /\ UNCHANGED <<appVars, chatVars, anVars, hostPresent>>

\* ---------------------------------------------------------------- Analyzer
\* the images the file picker can return
Files == {"page1", "page2"}

\* the text of an analysis response; <<>> is a response without text
Tokens == {<<"#", "#", " ">>, <<"#">>, <<" ">>, <<"\n">>, <<"a">>}
ResponseTexts == {Flatten(q) : q \in SeqsUpTo(Tokens, MaxTokens)}

\* how the generateContent call of handleAnalyze can settle
AnOutcomes == {[ok |-> TRUE, text |-> t] : t \in ResponseTexts}
                \cup {[ok |-> FALSE, text |-> <<>>]}

Delimiter == <<"#", "#", " ">>

\* one displayed section: the heading and the box under it
Section(section) ==
  LET lines == Split(section, <<"\n">>)
  IN  [title |-> Trim(lines[1]), body |-> Trim(Join(Tail(lines), <<"\n">>))]

RenderAllSegments(res) ==
  LET segments == Split(res, Delimiter)
  IN  [index \in 1..Len(segments) |-> Section(segments[index])]

\* the sections the result panel displays for a stored result
renderResult(res) ==
  LET segments == Split(res, Delimiter)
  IN  [index \in 1..(Len(segments) - 1) |-> Section(segments[index + 1])]

\* useState initial values
AnMount ==
  /\ file' = Null
  /\ previewUrl' = None
  /\ isAnalyzing' = FALSE
  /\ result' = None
  /\ anPc' = "idle"
  /\ anFile' = Null
  /\ anSettled' = None

\* the Analyzer is not rendered, or was just mounted
AnUnmounted ==
  /\ file = Null
  /\ previewUrl = None
  /\ isAnalyzing = FALSE
  /\ result = None
  /\ anPc = "idle"
  /\ anFile = Null
  /\ anSettled = None

AnUnmount == AnMount

\* onChange of the file input; f = Null when the picker returns no file
handleFileChange(f) ==
  /\ "Analyzer" \in mounted
  /\ IF f # Null
     THEN /\ file' = f
          /\ previewUrl' = Some(<<"blob:", f>>)
          /\ result' = None
     ELSE UNCHANGED <<file, previewUrl, result>>
  /\ UNCHANGED <<isAnalyzing, anPc, anFile, anSettled>>
  /\ UNCHANGED <<appVars, chatVars, genVars>>

\* handleAnalyze up to its first await.  The button is rendered while there
\* is a preview, no result and no analysis in progress.
handleAnalyze ==
  /\ "Analyzer" \in mounted
  /\ previewUrl # None /\ result = None /\ ~isAnalyzing
  /\ file # Null
  /\ isAnalyzing' = TRUE
  /\ result' = None
  /\ anFile' = file
  /\ anPc' = "converting"
  /\ UNCHANGED <<file, previewUrl, anSettled>>
  /\ UNCHANGED <<appVars, chatVars, genVars>>

\* blobToBase64 resolved: generateContent is called with the captured file
blobToBase64Resolved ==
  /\ anPc = "converting"
  /\ anPc' = "requesting"
  /\ UNCHANGED <<file, previewUrl, isAnalyzing, result, anFile, anSettled>>
  /\ UNCHANGED <<appVars, chatVars, genVars>>

\* the collaborator settles the generateContent promise
analysisSettles ==
  /\ anPc = "requesting"
  /\ anSettled = None
  /\ \E outcome \in AnOutcomes : anSettled' = Some(outcome)
  /\ UNCHANGED <<file, previewUrl, isAnalyzing, result, anPc, anFile>>
  /\ UNCHANGED <<appVars, chatVars, genVars>>

\* the result after a response with the given text
StoreResponse(res, text) == IF text # <<>> THEN Some(text) ELSE res

\* handleAnalyze resumes with a response: the result, then finally
analyzeResolved ==
  /\ anSettled # None
  /\ anSettled[1].ok
  /\ result' = StoreResponse(result, anSettled[1].text)
  /\ isAnalyzing' = Finally
  /\ anPc' = "idle"
  /\ anFile' = Null
  /\ anSettled' = None
  /\ UNCHANGED <<file, previewUrl>>
  /\ UNCHANGED <<appVars, chatVars, genVars>>

\* the catch block and the finally block of handleAnalyze
AnalyzeCatch ==
  /\ result' = Some(ANALYSIS_ERROR)
  /\ isAnalyzing' = Finally
  /\ anPc' = "idle"
  /\ anFile' = Null
  /\ anSettled' = None
  /\ UNCHANGED <<file, previewUrl>>
  /\ UNCHANGED <<appVars, chatVars, genVars>>

\* blobToBase64 rejected
blobToBase64Rejected ==
  /\ anPc = "converting"
  /\ AnalyzeCatch

\* handleAnalyze resumes with the error generateContent threw
analyzeRejected ==
  /\ anSettled # None
  /\ ~anSettled[1].ok
  /\ AnalyzeCatch

\* ------------------------------------------------------------- view switch
\* the sidebar buttons: setCurrentView, then the render.  React unmounts the
\* controller that is no longer returned and mounts the one that is.
setCurrentView(view) ==
  /\ currentView' = view
  /\ mounted' = {renderContent(view)}
  /\ IF "ChatBot" \in mounted' \ mounted THEN ChatMount
     ELSE IF "ChatBot" \in mounted \ mounted' THEN ChatUnmount
     ELSE UNCHANGED chatVars
  /\ IF "ImageGenerator" \in mounted' \ mounted THEN GenMount
     ELSE IF "ImageGenerator" \in mounted \ mounted' THEN GenUnmount
     ELSE UNCHANGED genVars
  /\ IF "Analyzer" \in mounted' \ mounted THEN AnMount
     ELSE IF "Analyzer" \in mounted \ mounted' THEN AnUnmount
     ELSE UNCHANGED anVars

\* ------------------------------------------------------------ specification
Init ==
  /\ currentView = "ANALYZER"
  /\ mounted = {renderContent("ANALYZER")}
  /\ ChatUnmounted
  /\ GenUnmounted
  /\ AnUnmounted

Next ==
  \/ \E view \in View : setCurrentView(view)
  \/ \E v \in Inputs : setInput(v)
  \/ handleSend
  \/ sendMessageStreamResolved
  \/ sendMessageStreamRejected
  \/ \E c \in Fragments : streamChunk(c)
  \/ streamDone
  \/ streamThrew
  \/ \E hasKey \in BOOLEAN : checkApiKeyResolved(hasKey)
  \/ handleConnectKey
  \/ openSelectKeyResolved
  \/ openSelectKeyRejected
  \/ \E v \in Prompts : setPrompt(v)
  \/ \E res \in ImageResolution : setResolution(res)
  \/ handleGenerate
  \/ generateContentSettles
  \/ generateContentResolved
  \/ generateContentRejected
  \/ \E f \in Files \cup {Null} : handleFileChange(f)
  \/ handleAnalyze
  \/ blobToBase64Resolved
  \/ blobToBase64Rejected
  \/ analysisSettles
  \/ analyzeResolved
  \/ analyzeRejected

Spec == Init /\ [][Next]_vars

\* The event loop runs a continuation once its promise has settled, and the
\* collaborator settles every call and ends every stream.
ChatContinues ==
  \/ sendMessageStreamResolved
  \/ sendMessageStreamRejected
  \/ \E c \in Fragments : streamChunk(c)
  \/ streamDone
  \/ streamThrew

GenContinues ==
  \/ generateContentSettles
  \/ generateContentResolved
  \/ generateContentRejected

AnContinues ==
  \/ blobToBase64Resolved
  \/ blobToBase64Rejected
  \/ analysisSettles
  \/ analyzeResolved
  \/ analyzeRejected

\* one controller is mounted at a time, so one operation is in flight at most
Continues == ChatContinues \/ GenContinues \/ AnContinues

FairSpec == Spec /\ WF_vars(Continues)

\* ------------------------------------------------------------------ claims
LastMessage(msgs) == msgs[Len(msgs)]

\* C1: while a chat turn's stream is read, the last transcript entry's text is
\* the concatenation of the chunk texts yielded so far, each value is a prefix
\* of the next, and when the stream ends without error the entry holds the
\* concatenation of all of them.
C1_StreamedText ==
  [][/\ chatPc' = "streaming" =>
          LastMessage(messages').text = Flatten(yielded')
     /\ chatPc = "streaming" /\ chatPc' = "done" =>
          LastMessage(messages').text = Flatten(yielded)
     /\ chatPc = "streaming" /\ chatPc' \in {"streaming", "done"} =>
          /\ Len(messages') = Len(messages)
          /\ IsPrefix(LastMessage(messages).text, LastMessage(messages').text)]_vars

\* a turn that streamed "Hel" then "lo" has ended with the entry "Hello"
C1_Witness ==
  /\ chatPc = "done"
  /\ LastMessage(messages) = ChatMessage("model", <<"H", "e", "l", "l", "o">>)

Blank(text) == \A i \in 1..Len(text) : text[i] \in WhiteSpace

\* C2: a handleSend call on an input whose trimmed form is empty changes
\* nothing: no request reaches the conversation handle, and the transcript,
\* the input field and the typing flag stay as they were.
C2_BlankSendIsNoOp ==
  [][chatCall' = "handleSend" /\ Blank(input) =>
       UNCHANGED <<chatRequests, messages, input, isTyping>>]_vars

\* handleSend has run on an input of one space
C2_Witness ==
  /\ chatCall = "handleSend"
  /\ input = <<" ">>
  /\ chatRequests = <<>>

\* handleGenerate issues its request in this step
GenRequestIssued == genRequest = None /\ genRequest' # None

\* handleGenerate resumes with a response in this step
GenResumesOk ==
  /\ genSettled # None
  /\ genSettled[1].ok
  /\ genPc' = "generated"

HasInlineData(part) == part.inlineData
HasPayload(part) == part.inlineData /\ part.data # ""

\* the parts of the first candidate of a response
PartsOf(response) == IF response.hasParts THEN response.parts ELSE <<>>

\* one data URL per chosen part, in order
Gallery(chosen) ==
  [i \in 1..Len(chosen) |->
     <<"data:",
       IF chosen[i].mimeType = "" THEN "image/png" ELSE chosen[i].mimeType,
       ";base64,", chosen[i].data>>]

\* C3 as stated: the request carries the selected resolution and the 1:1
\* aspect ratio, and the gallery holds one image per inline-data part of the
\* first candidate, in order.
C3_Original ==
  [][/\ GenRequestIssued =>
          /\ genRequest'[1].imageSize = resolution
          /\ genRequest'[1].aspectRatio = "1:1"
     /\ GenResumesOk =>
          generatedImages' = Gallery(SelectSeq(PartsOf(genSettled[1].response), HasInlineData))]_vars

\* C3 as amended: the request carries the prompt, the resolution selected when
\* handleGenerate is called and the 1:1 aspect ratio, it is the only request
\* in flight, and the gallery holds one image per inline-data part of the
\* first candidate that carries a non-empty payload, in order (none when
\* there is no such part).
C3_RequestAndGallery ==
  [][/\ GenRequestIssued =>
          /\ genRequest' = Some([prompt |-> prompt, imageSize |-> resolution,
                                 aspectRatio |-> "1:1"])
          /\ Trim(prompt) # <<>>
     /\ genRequest # None /\ genRequest' # None => genRequest' = genRequest
     /\ GenResumesOk =>
          generatedImages' = Gallery(SelectSeq(PartsOf(genSettled[1].response), HasPayload))]_vars

\* a generation has ended with two different images
C3_Witness ==
  /\ genPc = "generated"
  /\ Len(generatedImages) = 2
  /\ generatedImages[1] # generatedImages[2]

\* handleGenerate resumes with an authentication-style error in this step
GenResumesAuthError ==
  /\ genSettled # None
  /\ ~genSettled[1].ok
  /\ genSettled[1].matches
  /\ genPc' = "authFailed"

\* C4 as stated: an authentication-style failure takes the controller to
\* keyMissing and calls openSelectKey exactly once.
C4_Original ==
  [][GenResumesAuthError =>
       /\ hasApiKey' = FALSE
       /\ openPending' = openPending + 1]_vars

\* C4 as amended: an authentication-style failure takes the controller to
\* keyMissing; it calls openSelectKey exactly once when the host capability
\* (window.aistudio) exists and not at all when it does not.
C4_AuthFailure ==
  [][GenResumesAuthError =>
       /\ hasApiKey' = FALSE
       /\ hostPresent => openPending' = openPending + 1
       /\ ~hostPresent => openPending' = openPending]_vars

\* an authentication-style failure has left the controller in keyMissing with
\* one openSelectKey call pending
C4_Witness ==
  /\ genPc = "authFailed"
  /\ ~hasApiKey
  /\ openPending = 1

\* the positions at which the delimiter "## " occurs in a text
Occurrences(text) ==
  {i \in 1..Len(text) : /\ i + 2 <= Len(text)
                         /\ text[i] = "#" /\ text[i + 1] = "#" /\ text[i + 2] = " "}

\* the text after the occurrence at position i, up to the next occurrence
SegmentAfter(text, i) ==
  LET later == {j \in Occurrences(text) : j > i}
      stop == IF later = {} THEN Len(text) + 1
              ELSE CHOOSE j \in later : \A k \in later : j <= k
  IN  SubSeq(text, i + 3, stop - 1)

\* the k-th smallest element of a set of numbers
Nth(S, k) == CHOOSE i \in S : Cardinality({j \in S : j <= i}) = k

NewLines(text) == {i \in 1..Len(text) : text[i] = "\n"}

\* a text up to its first line break, and after it
FirstLine(text) ==
  IF NewLines(text) = {} THEN text
  ELSE SubSeq(text, 1, Nth(NewLines(text), 1) - 1)
Remainder(text) ==
  IF NewLines(text) = {} THEN <<>>
  ELSE SubSeq(text, Nth(NewLines(text), 1) + 1, Len(text))

\* C5 as stated: a stored result with N occurrences of "## " is displayed as
\* N-1 sections.
C5_Original ==
  result # None =>
    Len(renderResult(result[1])) = Cardinality(Occurrences(result[1])) - 1

\* C5 as amended: a stored result with N occurrences of "## " is displayed as
\* N sections (of the N+1 split segments the first is discarded); the k-th
\* section's title is the trimmed first line of the text after the k-th
\* occurrence and its body is the trimmed remainder of that text.
C5_Sections ==
  result # None =>
    LET text == result[1]
        sections == renderResult(text)
        N == Cardinality(Occurrences(text))
    IN  /\ Len(sections) = N
        /\ \A k \in 1..N :
             LET segment == SegmentAfter(text, Nth(Occurrences(text), k))
             IN  /\ sections[k].title = Trim(FirstLine(segment))
                 /\ sections[k].body = Trim(Remainder(segment))

\* a result is displayed as two sections that both have a title
C5_Witness ==
  /\ result # None
  /\ Len(renderResult(result[1])) = 2
  /\ renderResult(result[1])[1].title # <<>>
  /\ renderResult(result[1])[2].title # <<>>

\* C6: while the ChatBot stays mounted no transcript entry is removed or
\* reordered; an entry's role never changes, and the only entry whose text
\* changes is the last one, a model message, while its stream is read.
C6_AppendOnly ==
  [][("ChatBot" \in mounted /\ "ChatBot" \in mounted') =>
       /\ Len(messages') >= Len(messages)
       /\ \A i \in 1..Len(messages) :
            /\ messages'[i].role = messages[i].role
            /\ messages'[i].text # messages[i].text =>
                 /\ i = Len(messages')
                 /\ messages[i].role = "model"
                 /\ chatPc = "streaming" /\ chatPc' = "streaming"]_vars

\* the placeholder of a turn has received text while the greeting and the
\* user message before it are in place
C6_Witness ==
  /\ chatPc = "streaming"
  /\ Len(messages) = 3
  /\ messages[1] = ChatMessage("model", GREETING)
  /\ messages[2].role = "user"
  /\ messages[3].text # <<>>

Busy == isTyping \/ isLoading \/ isAnalyzing

\* C7: a busy flag is set only while its operation is in flight, so every
\* finished operation (success or failure) has left its flag false; and, the
\* collaborator settling every call, a flag that is set (at most one is, one
\* controller being mounted at a time) is eventually cleared.
C7_BusyFlagCleared ==
  /\ [](isTyping <=> chatPc \in {"requesting", "streaming"})
  /\ [](isLoading <=> genPc = "generating")
  /\ [](isAnalyzing <=> anPc \in {"converting", "requesting"})
  /\ (Busy ~> ~Busy)

\* a chat turn has failed while its stream was read, and the flag is clear
C7_Witness ==
  /\ chatPc = "threw"
  /\ ~isTyping

\* handleAnalyze resumes after a response, or its catch block runs, in this step
AnalyzeEnds == anPc # "idle" /\ anPc' = "idle" /\ "Analyzer" \in mounted'
AnalyzeEndsOk == AnalyzeEnds /\ anSettled # None /\ anSettled[1].ok
AnalyzeEndsFailed == AnalyzeEnds /\ (anSettled = None \/ ~anSettled[1].ok)

\* C8: every analyze() call ends with a stored result, the response text on
\* success and the fixed error string on failure, and the result is never
\* left empty.
C8_AnalyzeStoresResult ==
  [][/\ AnalyzeEndsOk => result' = Some(anSettled[1].text)
     /\ AnalyzeEndsFailed => result' = Some(ANALYSIS_ERROR)
     /\ (AnalyzeEndsOk \/ AnalyzeEndsFailed) => result' # None /\ result'[1] # <<>>]_vars

\* the transcript ends with a user message, a model message and the apology
EndsUserPlaceholderApology ==
  /\ Len(messages) >= 3
  /\ messages[Len(messages) - 2].role = "user"
  /\ messages[Len(messages) - 1].role = "model"
  /\ messages[Len(messages) - 1].text # APOLOGY
  /\ LastMessage(messages) = ChatMessage("model", APOLOGY)

\* C9 as stated: a failed turn leaves the transcript ending with the user
\* message, the placeholder and the apology.
C9_Original == chatPc \in {"rejected", "threw"} => EndsUserPlaceholderApology

\* C9 as amended: on any thrown error exactly one apology message is appended
\* and no earlier entry is removed or overwritten; when the stream throws
\* while it is read the transcript ends with user message, placeholder,
\* apology, and when sendMessageStream itself throws no placeholder exists yet
\* and the transcript ends with user message, apology.
C9_FailedTurn ==
  /\ [][chatPc' \in {"rejected", "threw"} /\ chatPc' # chatPc =>
          messages' = Append(messages, ChatMessage("model", APOLOGY))]_vars
  /\ [](chatPc = "threw" => EndsUserPlaceholderApology)
  /\ [](chatPc = "rejected" =>
          /\ LastMessage(messages) = ChatMessage("model", APOLOGY)
          /\ messages[Len(messages) - 1].role = "user")

\* a turn has failed after its placeholder received "Hel"
C9_Witness ==
  /\ chatPc = "threw"
  /\ Len(messages) = 4
  /\ messages[3] = ChatMessage("model", <<"H", "e", "l">>)
  /\ messages[4] = ChatMessage("model", APOLOGY)

\* the controller that belongs to a view selection
ControllerOf(view) ==
  IF view = "CHAT" THEN "ChatBot"
  ELSE IF view = "IMAGE_GEN" THEN "ImageGenerator" ELSE "Analyzer"

\* C10: the selection starts at Analyzer and every selection can be made from
\* every state; exactly one controller is mounted, the one of the current
\* selection, and the others hold no state; a controller that is mounted by a
\* switch starts from its initial state (the transcript is the greeting alone,
\* the analyzer has no file and no result, the gallery is empty).
C10_OneControllerMounted ==
  /\ currentView = "ANALYZER"
  /\ [](/\ mounted = {ControllerOf(currentView)}
        /\ Cardinality(mounted) = 1
        /\ "ChatBot" \notin mounted => ChatUnmounted
        /\ "ImageGenerator" \notin mounted => GenUnmounted
        /\ "Analyzer" \notin mounted => AnUnmounted
        /\ \A view \in View : ENABLED setCurrentView(view))
  /\ [][/\ ("ChatBot" \in mounted' \ mounted) =>
             /\ messages' = <<ChatMessage("model", GREETING)>>
             /\ input' = <<>> /\ ~isTyping' /\ chatRequests' = <<>>
        /\ ("Analyzer" \in mounted' \ mounted) =>
             /\ file' = Null /\ previewUrl' = None
             /\ result' = None /\ ~isAnalyzing'
        /\ ("ImageGenerator" \in mounted' \ mounted) =>
             /\ prompt' = <<>> /\ resolution' = "1K"
             /\ generatedImages' = <<>> /\ ~isLoading' /\ hasApiKey']_vars

\* the chat view is selected and the ChatBot alone is mounted, freshly
C10_Witness ==
  /\ currentView = "CHAT"
  /\ mounted = {"ChatBot"}
  /\ messages = <<ChatMessage("model", GREETING)>>
  /\ AnUnmounted

\* handleSend issues the streamed request in this step
ChatRequestIssued == Len(chatRequests') = Len(chatRequests) + 1

\* C11 as stated: at the moment the request to the collaborator is issued the
\* last transcript entry is already the empty placeholder model message.
C11_Original ==
  [][ChatRequestIssued => LastMessage(messages') = ChatMessage("model", <<>>)]_vars

\* C11 as amended: the step of send that issues the streamed request appends
\* the user message, clears the input and sets the typing flag, so while the
\* request is pending the last transcript entry is the user message that was
\* sent; the empty placeholder is appended only once the request has
\* returned its stream, as the next entry after that user message.
C11_StepOrder ==
  /\ [][ChatRequestIssued =>
          /\ messages' = Append(messages, ChatMessage("user", input))
          /\ LastMessage(chatRequests') = input
          /\ input' = <<>>
          /\ isTyping'
          /\ chatPc' = "requesting"]_vars
  /\ [](chatPc = "requesting" =>
          LastMessage(messages) = ChatMessage("user", LastMessage(chatRequests)))
  /\ [][chatPc = "requesting" /\ chatPc' = "streaming" =>
          messages' = Append(messages, ChatMessage("model", <<>>))]_vars

\* the request is pending and the transcript is the greeting and the user
\* message
C11_Witness ==
  /\ chatPc = "requesting"
  /\ Len(chatRequests) = 1
  /\ Len(messages) = 2
  /\ messages[2].role = "user"

\* a chat turn is in flight: its request is pending or its stream is read
TurnInFlight == chatPc \in {"requesting", "streaming"}

\* C12: send being accepted only while the typing flag is false, a turn is
\* started only when no turn is in flight, so at most one is in flight at a
\* time; and every fragment update writes the text accumulated for the turn
\* into that turn's placeholder, the model entry that follows the turn's user
\* message, and changes no other entry.
C12_OneTurnInFlight ==
  /\ [](TurnInFlight <=> isTyping)
  /\ [][ChatRequestIssued => ~isTyping /\ ~TurnInFlight]_vars
  /\ [][chatPc = "streaming" /\ chatPc' = "streaming" /\ messages' # messages =>
          LET i == Len(messages)
          IN  /\ messages[i].role = "model"
              /\ messages[i - 1] = ChatMessage("user", LastMessage(chatRequests))
              /\ messages' = [messages EXCEPT ![i].text = Flatten(yielded')]]_vars

\* the second turn of a conversation streams into its own placeholder, the
\* fifth entry
C12_Witness ==
  /\ chatPc = "streaming"
  /\ Len(chatRequests) = 2
  /\ Len(messages) = 5
  /\ messages[3].role = "model"
  /\ messages[4].role = "user"
  /\ messages[5] = ChatMessage("model", <<"H", "e", "l">>)

\* the ImageGenerator instance is in keyMissing
KeyMissing == "ImageGenerator" \in mounted /\ ~hasApiKey

\* the mounted ImageGenerator leaves keyMissing in this step
LeavesKeyMissing == KeyMissing /\ "ImageGenerator" \in mounted' /\ hasApiKey'

\* an openSelectKey() promise settles in this step
ConnectSettles ==
  "ImageGenerator" \in mounted' /\ openPending' = openPending - 1

\* the hasSelectedApiKey() promise of checkApiKey settles in this step
CheckSettles == "ImageGenerator" \in mounted' /\ checkPending /\ ~checkPending'

\* C13 as stated: the presence check returning false enters keyMissing; in
\* keyMissing a connectKey action always opens the host flow and its end
\* always sets the key gate; nothing but connectKey leaves keyMissing.
C13_Original ==
  /\ [](checkPending => ENABLED (checkApiKeyResolved(FALSE) /\ ~hasApiKey'))
  /\ [](KeyMissing /\ openPending = 0 =>
          ENABLED (handleConnectKey /\ openPending' = 1))
  /\ [][ConnectSettles => hasApiKey']_vars
  /\ [][LeavesKeyMissing => ConnectSettles]_vars

\* C13 as amended: keyMissing is entered when the presence check returns
\* false or a generation fails with an authentication-style error.  In
\* keyMissing a connectKey action opens the host flow exactly when the host
\* capability exists and is without effect otherwise; when the flow resolves
\* the key gate becomes true without reading the presence check back, and
\* when it rejects the gate is unchanged.  Besides connectKey, a presence
\* check that was still pending also leaves keyMissing when it returns true.
C13_KeyMissing ==
  /\ [](checkPending => ENABLED (checkApiKeyResolved(FALSE) /\ ~hasApiKey'))
  /\ [][hasApiKey /\ ~hasApiKey' => CheckSettles \/ GenResumesAuthError]_vars
  /\ [](KeyMissing /\ openPending = 0 =>
          /\ hostPresent <=> ENABLED (handleConnectKey /\ openPending' = 1)
          /\ ~hostPresent => ~ENABLED <<handleConnectKey>>_vars)
  /\ [](openPending > 0 => ENABLED (openSelectKeyResolved /\ hasApiKey'))
  /\ [][ConnectSettles => hasApiKey' \/ UNCHANGED hasApiKey]_vars
  /\ [][LeavesKeyMissing => ConnectSettles \/ (CheckSettles /\ ~ConnectSettles)]_vars

\* the presence check has returned false before any generation: the
\* controller is in keyMissing with the host capability at hand
C13_Witness ==
  /\ KeyMissing
  /\ hostPresent
  /\ ~checkPending
  /\ openPending = 0
  /\ genPc = "idle"

\* handleGenerate resumes with an error that is not an authentication-style
\* error in this step
GenResumesOtherError ==
  /\ genSettled # None
  /\ ~genSettled[1].ok
  /\ ~genSettled[1].matches
  /\ "ImageGenerator" \in mounted'
  /\ genSettled' = None

\* C14: a generation that fails with an error not classified as an
\* authentication failure ends not generating, with an empty gallery, the key
\* gate as it was and no connect flow opened; the prompt and the resolution,
\* the only other displayed state, are as they were, so no error text is
\* stored.
C14_OtherFailure ==
  [][GenResumesOtherError =>
       /\ ~isLoading'
       /\ genRequest' = None
       /\ generatedImages' = <<>>
       /\ UNCHANGED <<hasApiKey, openPending, prompt, resolution>>]_vars

\* a generation has failed with such an error and the key gate is still true
C14_Witness ==
  /\ genPc = "failed"
  /\ hasApiKey
  /\ ~isLoading
  /\ generatedImages = <<>>

\* the result panel displays the given text as a section title or body
Displays(res, text) ==
  \E k \in 1..Len(renderResult(res)) :
    renderResult(res)[k].title = text \/ renderResult(res)[k].body = text

\* C15: after a failed analyze() the stored error string is visible: the
\* rendering of the stored result displays the error text.
C15_ErrorVisible ==
  result = Some(ANALYSIS_ERROR) => Displays(result[1], ANALYSIS_ERROR)

\* an analysis has failed and the panel renders no section for its result
C15_Witness ==
  /\ "Analyzer" \in mounted
  /\ ~isAnalyzing
  /\ result = Some(ANALYSIS_ERROR)
  /\ renderResult(result[1]) = <<>>

\* C16: a result stored when analyze() ends belongs to an analysis of the
\* file that is selected at that moment, under any interleaving of
\* selectImage with the analyze() in flight.
C16_ResultOfSelectedFile ==
  [][AnalyzeEnds /\ result' # None => anFile = file']_vars

\* while the analysis of one file is in flight with its response settled,
\* another file has been selected
C16_Witness ==
  /\ isAnalyzing
  /\ anSettled # None
  /\ anSettled[1].ok
  /\ anSettled[1].text # <<>>
  /\ anFile # file
====
